---- MODULE Spec2Model ----
(***************************************************************************)
(* Model of src/app.py: a Streamlit chat page that fuses a sentiment        *)
(* classifier result, an emotion classifier result and a crisis-keyword     *)
(* scan of the user's text into one supportive reply and an optional        *)
(* coping tip.                                                               *)
(*                                                                           *)
(* Conventions                                                               *)
(*  - A Python str that comes from outside (the user's text, a classifier   *)
(*    label) or that the code compares with one is a sequence of            *)
(*    characters.  An ASCII character is the 1-character string; any other   *)
(*    character is the string "U+" followed by its code point in hex.        *)
(*    Chars("abc") is the str written abc.                                   *)
(*  - The texts the page shows (replies, tips, notices) are TLA+ strings;    *)
(*    their non-ASCII punctuation is written with its ASCII look-alike.      *)
(*  - Python floats (classifier scores) are integers in hundredths.          *)
(*  - A Python dict is a TLA+ function whose DOMAIN is the set of keys.      *)
(*  - An optional value / a list of emitted UI elements is a sequence.       *)
(***************************************************************************)
EXTENDS Integers, Sequences, FiniteSets, TLC

VARIABLES
    messages,   \* st.session_state.messages: the chat history
    proc,       \* number of the server process (grows at each restart)
    hashtab,    \* hash(user_text) values fixed so far in this process
    input,      \* <<>> or <<[text, sres, eres, stop]>>: the last submitted text,
                \* the outcomes of the two classifier calls made for it and the
                \* place where Streamlit stopped the run, if it did
    result,     \* <<>> or <<dict returned by analyze_and_respond>> in that run
    written,    \* st.write calls of the assistant block in that run
    captions,   \* st.caption calls of the assistant block in that run
    toasts,     \* st.toast calls in that run
    errors,     \* st.error calls in that run
    arg,        \* text handed to a direct call of detect_crisis
    ret         \* <<>> or <<value returned by that call>>

vars == <<messages, proc, hashtab, input, result, written, captions, toasts,
          errors, arg, ret>>

(***************************************************************************)
(* Bounds of the exploration.                                               *)
(***************************************************************************)
MaxTokens == 2      \* fragments concatenated into a probe text
MaxTurns == 2       \* user inputs per session
MaxRestarts == 1    \* process restarts
HashMax == 3        \* hash(str) ranges over -HashMax..HashMax (64 bits in CPython)

(***************************************************************************)
(* Characters.  The model's repertoire is printable ASCII (without the       *)
(* grave accent, which a TLA+ string cannot hold), the letters of Latin-1     *)
(* and six more characters whose case mapping leaves ASCII, enters it or     *)
(* changes the length; every text and label of the model is made of these.   *)
(***************************************************************************)
LowerAlphabet == "abcdefghijklmnopqrstuvwxyz"
UpperAlphabet == "ABCDEFGHIJKLMNOPQRSTUVWXYZ"
Printable ==
    " !\"#$%&'()*+,-./0123456789:;<=>?@" \o UpperAlphabet \o "[\\]^_"
    \o LowerAlphabet \o "{|}~"

CharAt(s, i) == SubSeq(s, i, i)

Chars(s) == [i \in 1..Len(s) |-> CharAt(s, i)]

KelvinSign == "U+212A"          \* lower() gives k
CapitalIDot == "U+0130"         \* lower() gives i followed by U+0307
CombiningDot == "U+0307"
DotlessI == "U+0131"            \* upper() gives I
SharpS == "U+00DF"              \* upper() gives SS
CapitalEAcute == "U+00C9"       \* lower() gives U+00E9
SmallEAcute == "U+00E9"         \* upper() gives U+00C9
LongS == "U+017F"               \* upper() gives S

\* the letters of Latin-1: U+00C0..U+00DE without the multiplication sign,
\* and the small letter of each, 32 code points above
Latin1Capitals ==
    << "U+00C0", "U+00C1", "U+00C2", "U+00C3", "U+00C4", "U+00C5",
       "U+00C6", "U+00C7", "U+00C8", "U+00C9", "U+00CA", "U+00CB",
       "U+00CC", "U+00CD", "U+00CE", "U+00CF", "U+00D0", "U+00D1",
       "U+00D2", "U+00D3", "U+00D4", "U+00D5", "U+00D6", "U+00D8",
       "U+00D9", "U+00DA", "U+00DB", "U+00DC", "U+00DD", "U+00DE" >>

Latin1Smalls ==
    << "U+00E0", "U+00E1", "U+00E2", "U+00E3", "U+00E4", "U+00E5",
       "U+00E6", "U+00E7", "U+00E8", "U+00E9", "U+00EA", "U+00EB",
       "U+00EC", "U+00ED", "U+00EE", "U+00EF", "U+00F0", "U+00F1",
       "U+00F2", "U+00F3", "U+00F4", "U+00F5", "U+00F6", "U+00F8",
       "U+00F9", "U+00FA", "U+00FB", "U+00FC", "U+00FD", "U+00FE" >>

Repertoire ==
    {CharAt(Printable, i) : i \in 1..Len(Printable)}
    \cup {Latin1Capitals[k] : k \in DOMAIN Latin1Capitals}
    \cup {Latin1Smalls[k] : k \in DOMAIN Latin1Smalls}
    \cup {KelvinSign, CapitalIDot, CombiningDot, DotlessI, SharpS, LongS}

PosIn(letters, c) == CHOOSE k \in DOMAIN letters : letters[k] = c

IndexIn(alphabet, c) == CHOOSE k \in 1..Len(alphabet) : CharAt(alphabet, k) = c

(***************************************************************************)
(* str.lower() and str.upper(): the Unicode case mapping of each character   *)
(* of the repertoire, which may be more than one character long.             *)
(***************************************************************************)
LowerTable ==
    [c \in Repertoire |->
        IF \E k \in 1..Len(UpperAlphabet) : CharAt(UpperAlphabet, k) = c
        THEN <<CharAt(LowerAlphabet, IndexIn(UpperAlphabet, c))>>
        ELSE IF c = KelvinSign THEN <<"k">>
        ELSE IF c = CapitalIDot THEN <<"i", CombiningDot>>
        ELSE IF \E k \in DOMAIN Latin1Capitals : Latin1Capitals[k] = c
        THEN <<Latin1Smalls[PosIn(Latin1Capitals, c)]>>
        ELSE <<c>>]

UpperTable ==
    [c \in Repertoire |->
        IF \E k \in 1..Len(LowerAlphabet) : CharAt(LowerAlphabet, k) = c
        THEN <<CharAt(UpperAlphabet, IndexIn(LowerAlphabet, c))>>
        ELSE IF c = DotlessI THEN <<"I">>
        ELSE IF c = SharpS THEN <<"S", "S">>
        ELSE IF \E k \in DOMAIN Latin1Smalls : Latin1Smalls[k] = c
        THEN <<Latin1Capitals[PosIn(Latin1Smalls, c)]>>
        ELSE IF c = LongS THEN <<"S">>
        ELSE <<c>>]

LowerChar(c) == LowerTable[c]

UpperChar(c) == UpperTable[c]

RECURSIVE LowerFrom(_, _)
LowerFrom(s, i) ==
    IF i > Len(s) THEN <<>> ELSE LowerChar(s[i]) \o LowerFrom(s, i + 1)

RECURSIVE UpperFrom(_, _)
UpperFrom(s, i) ==
    IF i > Len(s) THEN <<>> ELSE UpperChar(s[i]) \o UpperFrom(s, i + 1)

Lower(s) == LowerFrom(s, 1)

Upper(s) == UpperFrom(s, 1)

(***************************************************************************)
(* Python's `term in t` on strings: term occurs as a contiguous substring.  *)
(***************************************************************************)
Contains(t, term) ==
    \E i \in 0..(Len(t) - Len(term)) : SubSeq(t, i + 1, i + Len(term)) = term

(***************************************************************************)
(* detect_crisis                                                             *)
(***************************************************************************)
crisis_terms ==
    << Chars("suicide"), Chars("kill myself"), Chars("end my life"),
       Chars("can't go on"), Chars("cant go on"), Chars("self harm"),
       Chars("self-harm"), Chars("hurt myself"), Chars("harm myself"),
       Chars("ending it"), Chars("no reason to live") >>

\* variant: the text is not lower-cased first
detect_crisis_cased(text) ==
    \E k \in 1..Len(crisis_terms) : Contains(text, crisis_terms[k])

detect_crisis(text) ==
    LET t == Lower(text)
    IN  \E k \in 1..Len(crisis_terms) : Contains(t, crisis_terms[k])

(***************************************************************************)
(* The string literals the code compares labels with.                        *)
(***************************************************************************)
NEGATIVE == Chars("NEGATIVE")
POSITIVE == Chars("POSITIVE")
NEUTRAL == Chars("NEUTRAL")
neutral == Chars("neutral")
joy == Chars("joy")

(***************************************************************************)
(* build_empathetic_response                                                 *)
(***************************************************************************)
CrisisMessage ==
    "I'm really sorry you're feeling this way. Your life matters and you deserve support. "
    \o "If you're in immediate danger, please call your local emergency number (e.g., 112/911/999).\n\n"
    \o "You can reach a crisis line right now:\n"
    \o "- International: https://findahelpline.com/\n"
    \o "- India: AASRA +91-9820466726 | https://aasra.info/\n"
    \o "- US: 988 Suicide & Crisis Lifeline (call/text 988) | https://988lifeline.org/\n\n"
    \o "I'm here to listen. Would you like to tell me a little more about what's on your mind?"

NegativeStrongMessage ==
    "That sounds really tough, and it's completely okay to feel this way. "
    \o "You don't have to handle everything at once. Maybe try a small grounding step: "
    \o "take 3 slow breaths (in 4s, hold 4s, out 6s). If you'd like, we can break the situation "
    \o "into smaller parts together. What part feels heaviest right now?"

NegativeMildMessage ==
    "I hear some heaviness in what you shared. You're not alone. "
    \o "What would feel most supportive for you right now-venting, problem-solving, or a simple check-in?"

PositiveMessage ==
    "I love the hopeful energy here. That's a strength you can build on. "
    \o "What helped you get to this point today? Maybe we can note a small win to carry forward."

NeutralMessage ==
    "Thanks for sharing. I'm here with you. "
    \o "If you'd like, I can offer a gentle prompt: what's one small action that could make the next hour "
    \o "a bit easier?"

StrongThreshold == 70   \* score >= 0.7, in hundredths

\* variant: the sentiment label is looked at before the crisis flag
build_empathetic_response_label_first(label, score, user_text, crisis) ==
    IF label = POSITIVE THEN PositiveMessage
    ELSE IF crisis THEN CrisisMessage
    ELSE IF label = NEGATIVE
         THEN IF score >= StrongThreshold THEN NegativeStrongMessage
                                          ELSE NegativeMildMessage
    ELSE NeutralMessage

build_empathetic_response(label, score, user_text, crisis) ==
    IF crisis THEN CrisisMessage
    ELSE IF label = NEGATIVE
         THEN IF score >= StrongThreshold THEN NegativeStrongMessage
                                          ELSE NegativeMildMessage
    ELSE IF label = POSITIVE THEN PositiveMessage
    ELSE NeutralMessage

(***************************************************************************)
(* hash(user_text).  CPython salts str hashes with a per-process random    *)
(* key (PYTHONHASHSEED unset), so the value of hash(s) is fixed within a     *)
(* process and arbitrary across processes; hash("") is 0 and hash() never   *)
(* returns -1.  HashOk(s, h) says that h is a value hash(s) can take in the  *)
(* current process.                                                          *)
(***************************************************************************)
HashVals == (-HashMax..HashMax) \ {-1}

HashOk(s, h) ==
    /\ h \in HashVals
    /\ s = <<>> => h = 0
    /\ \A p \in hashtab : p[1] = s => p[2] = h

Abs(n) == IF n < 0 THEN -n ELSE n

(***************************************************************************)
(* build_emotion_specific_response; h is the value of hash(user_text).      *)
(***************************************************************************)
templates ==
    [ sadness |-> <<
        "It sounds really heavy. It's okay to feel sad. A tiny step like writing down one worry or taking a 2-minute stretch can help. What feels smallest to try?",
        "I'm hearing a lot of weight in this. You deserve gentleness right now. Could a short break with some music or a warm drink help even 1%?" >>,
      anger |-> <<
        "That anger makes sense if things feel unfair. Want to try a 10-second pause-inhale 4, hold 4, exhale 6-then we can sort what's in your control?",
        "Your feelings are valid. We can channel this energy. Would listing the top 1-2 triggers help us plan a next step?" >>,
      fear |-> <<
        "When worry spikes, your body is trying to protect you. Let's ground: name 5 things you see, 4 you feel, 3 you hear. I'm with you.",
        "Anxiety can feel loud. Let's shrink the moment: what's the next tiny action (30 seconds or less) you could take?" >>,
      disgust |-> <<
        "Feeling turned off or disappointed can be protective. If you zoom out, is there a boundary you'd like to set to feel safer?",
        "It's okay to step back from what doesn't feel right. What would a kinder environment look like for you today?" >>,
      surprise |-> <<
        "That's a lot to take in at once. Want to unpack it together, one small piece at a time?",
        "Unexpected moments can shake us. What's one thing you know for sure right now?" >>,
      neutral |-> <<
        "Thanks for sharing. I'm here with you. What's one small action that could make the next hour a bit easier?",
        "I'm listening. If you'd like, we can choose between venting, problem-solving, or a simple check-in." >>,
      joy |-> <<
        "I love the hopeful energy here. What helped you get to this point today? Let's note a small win to carry forward.",
        "That spark matters. What would help you keep this momentum for the next hour?" >> ]

\* `emotion in templates`: the key of the table equal to the str emotion
HasKey(emotion) == \E k \in DOMAIN templates : Chars(k) = emotion

KeyOf(emotion) == CHOOSE k \in DOMAIN templates : Chars(k) = emotion

\* variant: an unknown emotion falls back to the first entry of the table
build_emotion_specific_response_first_key(emotion, h) ==
    LET key == IF HasKey(emotion) THEN KeyOf(emotion) ELSE "sadness"
        choices == templates[key]
        idx == Abs(h) % Len(choices)
    IN  choices[idx + 1]

build_emotion_specific_response(emotion, h) ==
    LET key == IF HasKey(emotion) THEN KeyOf(emotion) ELSE "neutral"
        choices == templates[key]
        idx == Abs(h) % Len(choices)
    IN  choices[idx + 1]

(***************************************************************************)
(* Classifier calls.  A call is not made, raises, or returns a list whose    *)
(* first element is a dict with (normally) "label" and "score".  Loading a   *)
(* pipeline (lines 204-205) can raise too, before any call is made.          *)
(***************************************************************************)
NotCalled == [kind |-> "not_called"]

Raised == [kind |-> "raised"]

Returned(d) == [kind |-> "returned", r |-> d]

DictGet(d, k, default) == IF k \in DOMAIN d THEN d[k] ELSE default

DefaultScore == 50      \* 0.5, in hundredths

\* classify_emotion: (emo_label, emo_score)
classify_emotion(r) ==
    [ emo_label |-> Lower(DictGet(r, "label", neutral)),
      emo_score |-> DictGet(r, "score", DefaultScore) ]

NegativeEmotions == {Chars("sadness"), Chars("anger"), Chars("fear"), Chars("disgust")}

(***************************************************************************)
(* analyze_and_respond, for classifier calls that returned r and er; h is    *)
(* the value of hash(user_text).                                             *)
(***************************************************************************)
\* variant: the POSITIVE / joy branch is tested before the negative emotions
analyze_and_respond_positive_first(user_text, r, er, h) ==
    LET label == Upper(DictGet(r, "label", NEUTRAL))
        score == DictGet(r, "score", DefaultScore)
        crisis == detect_crisis(user_text)
        emo == classify_emotion(er)
        emo_label == emo.emo_label
        reply ==
            IF crisis
            THEN build_empathetic_response(label, score, user_text, crisis)
            ELSE IF label = POSITIVE \/ emo_label = joy
                 THEN build_emotion_specific_response(joy, h)
            ELSE IF label = NEGATIVE \/ emo_label \in NegativeEmotions
                 THEN build_emotion_specific_response(emo_label, h)
            ELSE build_emotion_specific_response(neutral, h)
    IN  [ label |-> label, score |-> score, emotion |-> emo_label,
          emotion_score |-> emo.emo_score, crisis |-> crisis, reply |-> reply ]

\* variant: the joy branch requires both POSITIVE sentiment and joy
analyze_and_respond_joy_needs_both(user_text, r, er, h) ==
    LET label == Upper(DictGet(r, "label", NEUTRAL))
        score == DictGet(r, "score", DefaultScore)
        crisis == detect_crisis(user_text)
        emo == classify_emotion(er)
        emo_label == emo.emo_label
        reply ==
            IF crisis
            THEN build_empathetic_response(label, score, user_text, crisis)
            ELSE IF label = NEGATIVE \/ emo_label \in NegativeEmotions
                 THEN build_emotion_specific_response(emo_label, h)
            ELSE IF label = POSITIVE /\ emo_label = joy
                 THEN build_emotion_specific_response(joy, h)
            ELSE build_emotion_specific_response(neutral, h)
    IN  [ label |-> label, score |-> score, emotion |-> emo_label,
          emotion_score |-> emo.emo_score, crisis |-> crisis, reply |-> reply ]

analyze_and_respond(user_text, r, er, h) ==
    LET label == Upper(DictGet(r, "label", NEUTRAL))
        score == DictGet(r, "score", DefaultScore)
        crisis == detect_crisis(user_text)
        emo == classify_emotion(er)
        emo_label == emo.emo_label
        reply ==
            IF crisis
            THEN build_empathetic_response(label, score, user_text, crisis)
            ELSE IF label = NEGATIVE \/ emo_label \in NegativeEmotions
                 THEN build_emotion_specific_response(emo_label, h)
            ELSE IF label = POSITIVE \/ emo_label = joy
                 THEN build_emotion_specific_response(joy, h)
            ELSE build_emotion_specific_response(neutral, h)
    IN  [ label |-> label, score |-> score, emotion |-> emo_label,
          emotion_score |-> emo.emo_score, crisis |-> crisis, reply |-> reply ]

\* hash(user_text) is taken only on the non-crisis path (lines 132 and 228)
UsesHash(user_text) == ~detect_crisis(user_text)

(***************************************************************************)
(* The chat page: one run of the script with a submitted user_input         *)
(* (lines 194-235).  The history is extended at line 196 and at line 232;    *)
(* between the two the run calls the classifiers and several st.* elements.  *)
(* Streamlit may end a run at any st.* call (the user submits again or stops *)
(* the run) by raising a RerunException / StopException there; these are     *)
(* BaseExceptions, which `except Exception` (line 233) does not catch.  The  *)
(* run then ends before that call takes effect.                              *)
(***************************************************************************)
Greeting == [role |-> "assistant", content |-> "Hi, I'm here to listen. What's on your mind today?"]

tips ==
    << "Mini reset: inhale 4, hold 4, exhale 6.",
       "Micro-action: sip water and roll your shoulders.",
       "Grounding: name 5 things you can see right now.",
       "30-second pause: look out a window or step away from the screen." >>

ErrorNotice == "Sorry, something went wrong while analyzing your message."

BeforeAnalysis == "before_analysis" \* lines 197-202, before the try block
AtWrite == "write"                  \* line 218
AtCaption == "caption"              \* line 219
AtToast1 == "toast1"                \* line 229
AtToast2 == "toast2"                \* line 230
AtError == "error"                  \* line 234
AtErrorCaption == "error_caption"   \* line 235

NoStop == "none"                    \* the run reaches its end

StopPoints == {BeforeAnalysis, AtWrite, AtCaption, AtToast1, AtToast2, AtError,
               AtErrorCaption}

UserTurns(hist) == Cardinality({i \in 1..Len(hist) : hist[i].role = "user"})

UserMessage(text) == [role |-> "user", content |-> text]

\* line 221: the condition under which the two toasts are shown
TipDue(crisis, label, emo) ==
    ~crisis /\ (label = NEGATIVE \/ emo \in NegativeEmotions)

\* lines 214-216: the caption under the reply (its fields, before formatting)
Meta(res) ==
    [ kind |-> "meta", label |-> res.label, score |-> res.score,
      emotion |-> res.emotion, emotion_score |-> res.emotion_score,
      crisis_note |-> res.crisis ]

\* lines 218-230: what a run stopped at `stop` has shown of the result res
ShownWritten(res, stop) == IF stop = AtWrite THEN <<>> ELSE <<res.reply>>

ShownCaptions(res, stop) ==
    IF stop \in {AtWrite, AtCaption} THEN <<>> ELSE <<Meta(res)>>

ShownToasts(res, h, stop) ==
    IF ~TipDue(res.crisis, res.label, res.emotion) \/ stop \in {AtWrite, AtCaption, AtToast1}
    THEN <<>>
    ELSE IF stop = AtToast2
    THEN << "You matter. I'm here with you." >>
    ELSE << "You matter. I'm here with you.",
            "Micro-boost: " \o tips[(Abs(h) % Len(tips)) + 1] >>

\* lines 206-232 when both classifier calls return; h is hash(user_input)
Respond(text, sres, eres, h, stop) ==
    LET res == analyze_and_respond(text, sres.r, eres.r, h)
    IN  /\ stop \in {NoStop, AtWrite, AtCaption}
           \/ (stop \in {AtToast1, AtToast2}
               /\ TipDue(res.crisis, res.label, res.emotion))
        /\ result' = <<res>>
        /\ written' = ShownWritten(res, stop)
        /\ captions' = ShownCaptions(res, stop)
        /\ errors' = <<>>
        /\ toasts' = ShownToasts(res, h, stop)
        /\ messages' =
              IF stop = NoStop
              THEN Append(Append(messages, UserMessage(text)),
                          [role |-> "assistant", content |-> res.reply])
              ELSE Append(messages, UserMessage(text))

\* lines 233-235: a classifier call (or the loading of a pipeline) raised
Fail(text, stop) ==
    /\ stop \in {NoStop, AtError, AtErrorCaption}
    /\ result' = <<>>
    /\ written' = <<>>
    /\ errors' = IF stop = AtError THEN <<>> ELSE <<ErrorNotice>>
    /\ captions' = IF stop = NoStop THEN <<[kind |-> "exception"]>> ELSE <<>>
    /\ toasts' = <<>>
    /\ messages' = Append(messages, UserMessage(text))
    /\ UNCHANGED hashtab

\* the run is stopped at lines 197-202: no classifier is called
StopEarly(text) ==
    /\ result' = <<>>
    /\ written' = <<>>
    /\ captions' = <<>>
    /\ errors' = <<>>
    /\ toasts' = <<>>
    /\ messages' = Append(messages, UserMessage(text))
    /\ UNCHANGED hashtab

\* The outcomes of the two calls fit the order of lines 204-206, 137 and 142:
\* the emotion classifier is called only after the sentiment classifier
\* returned; a pipeline that fails to load raises before any call.
CallsFit(sres, eres, stop) ==
    /\ (stop = BeforeAnalysis) <=> (sres = NotCalled /\ eres = NotCalled)
    /\ sres.kind = "raised" => eres = NotCalled
    /\ sres = NotCalled => eres \in {NotCalled, Raised}
    /\ sres.kind = "returned" => eres # NotCalled

Handle(text, sres, eres, stop) ==
    /\ text # <<>>                        \* line 194: `if user_input:`
    /\ UserTurns(messages) < MaxTurns
    /\ CallsFit(sres, eres, stop)
    /\ input' = <<[text |-> text, sres |-> sres, eres |-> eres, stop |-> stop]>>
    /\ UNCHANGED <<proc, arg, ret>>
    /\ IF stop = BeforeAnalysis
       THEN StopEarly(text)
       ELSE IF sres.kind # "returned" \/ eres.kind # "returned"
       THEN Fail(text, stop)
       ELSE IF UsesHash(text)
            THEN \E h \in HashVals :
                    /\ HashOk(text, h)
                    /\ hashtab' = hashtab \cup {<<text, h>>}
                    /\ Respond(text, sres, eres, h, stop)
            ELSE /\ UNCHANGED hashtab
                 /\ Respond(text, sres, eres, 0, stop)

\* The server process is restarted: a new hash key and a new session, whose
\* history is initialized by lines 181-184.  What the last run showed to the
\* user stays as it was shown.
Restart ==
    /\ proc < MaxRestarts
    /\ proc' = proc + 1
    /\ hashtab' = {}
    /\ messages' = <<Greeting>>
    /\ UNCHANGED <<input, result, written, captions, toasts, errors, arg, ret>>

(***************************************************************************)
(* Inputs.                                                                   *)
(***************************************************************************)
SentimentLabels ==
    { NEGATIVE, Chars("negative"), Chars("negat") \o <<DotlessI>> \o Chars("ve"),
      POSITIVE, Chars("Positive"), NEUTRAL, Chars("LABEL_1") }
SentimentScores == {69, 70}
EmotionLabels ==
    { Chars("sadness"), Chars("anger"), Chars("fear"), Chars("disgust"),
      Chars("surprise"), neutral, joy, Chars("JOY"), Chars("Fear"),
      Chars("d") \o <<CapitalIDot>> \o Chars("sgust"), Chars("bored") }
EmotionScores == {20, 90}

SentimentOutcomes ==
    {NotCalled, Raised}
    \cup {Returned([label |-> l, score |-> sc]) : l \in SentimentLabels, sc \in SentimentScores}
    \cup {Returned([label |-> l]) : l \in {NEGATIVE, POSITIVE}}
    \cup {Returned([score |-> sc]) : sc \in SentimentScores}

EmotionOutcomes ==
    {NotCalled, Raised}
    \cup {Returned([label |-> l, score |-> sc]) : l \in EmotionLabels, sc \in EmotionScores}
    \cup {Returned([label |-> Chars("anger")]), Returned([score |-> 90])}

TurnTexts ==
    { Chars(" "), Chars("I got the job!"), Chars("so tired today"),
      Chars("I can't go on anymore"), Chars("Thinking about SELF-HARM"),
      Chars("I will ") \o <<KelvinSign>> \o Chars("ill myself") }

\* the smaller menu of the multi-turn sessions
ChatTexts == {Chars("so tired today"), Chars("I Can't Go On anymore")}
ChatSentiment == {NotCalled, Raised,
                  Returned([label |-> NEGATIVE, score |-> 95]),
                  Returned([label |-> POSITIVE, score |-> 95])}
ChatEmotion == {NotCalled, Raised,
                Returned([label |-> Chars("sadness"), score |-> 80]),
                Returned([label |-> joy, score |-> 90])}
ChatStops == {NoStop, BeforeAnalysis, AtWrite, AtToast2}

InitPage ==
    /\ messages = <<Greeting>>
    /\ proc = 0
    /\ hashtab = {}
    /\ input = <<>>
    /\ result = <<>>
    /\ written = <<>>
    /\ captions = <<>>
    /\ toasts = <<>>
    /\ errors = <<>>

(***************************************************************************)
(* Spec: chat sessions of up to MaxTurns inputs, with restarts.             *)
(***************************************************************************)
Init == InitPage /\ arg = <<>> /\ ret = <<>>

Submit == \E text \in ChatTexts, sres \in ChatSentiment, eres \in ChatEmotion,
             stop \in ChatStops :
              Handle(text, sres, eres, stop)

Next == Submit \/ Restart

Spec == Init /\ [][Next]_vars

(***************************************************************************)
(* SpecTurn: the first input of a session, over the full input menu.  A     *)
(* run reads nothing of the history, so what it shows for an input is the    *)
(* same at every turn.                                                       *)
(***************************************************************************)
FirstTurn ==
    /\ Len(messages) = 1
    /\ \E text \in TurnTexts, sres \in SentimentOutcomes, eres \in EmotionOutcomes,
          stop \in StopPoints \cup {NoStop} :
           Handle(text, sres, eres, stop)

NextTurn == FirstTurn

SpecTurn == Init /\ [][NextTurn]_vars

(***************************************************************************)
(* SpecCrisis: direct calls of detect_crisis on texts assembled from        *)
(* fragments of the lexicon, in three casings.                               *)
(***************************************************************************)
Fragments ==
    { Chars("kill "), Chars("myself"), Chars("self"), Chars(" harm"),
      Chars("-harm"), Chars("hurt "), Chars("harm "), Chars("can't"),
      Chars("cant"), Chars(" go on"), Chars("suicide"), Chars("end my life"),
      Chars("ending it"), Chars("no reason to live"), Chars(" "), Chars("x"),
      <<KelvinSign>>, Chars("ill myself"),
      Chars("su") \o <<CapitalIDot>>, Chars("cide") }

RECURSIVE Concat(_)
Concat(parts) == IF parts = <<>> THEN <<>> ELSE Head(parts) \o Concat(Tail(parts))

RECURSIVE MixedFrom(_, _)
MixedFrom(s, i) ==
    IF i > Len(s) THEN <<>>
    ELSE (IF i % 2 = 1 THEN UpperChar(s[i]) ELSE <<s[i]>>) \o MixedFrom(s, i + 1)

Casings == {"lower", "upper", "mixed"}

ApplyCase(s, c) ==
    IF c = "upper" THEN Upper(s) ELSE IF c = "mixed" THEN MixedFrom(s, 1) ELSE s

ProbeTexts ==
    { ApplyCase(Concat(parts), c) :
        parts \in UNION {[1..n -> Fragments] : n \in 0..MaxTokens}, c \in Casings }

InitCrisis == InitPage /\ arg \in ProbeTexts /\ ret = <<>>

DetectCrisis ==
    /\ ret = <<>>
    /\ ret' = <<detect_crisis(arg)>>
    /\ UNCHANGED <<messages, proc, hashtab, input, result, written, captions,
                   toasts, errors, arg>>

NextCrisis == DetectCrisis

SpecCrisis == InitCrisis /\ [][NextCrisis]_vars

(***************************************************************************)
(* Vocabulary of the properties.  A classifier label is read from the raw    *)
(* inputs of the run and compared after the canonicalization the claims      *)
(* name (upper case for the sentiment label, lower case for the emotion      *)
(* label).                                                                   *)
(***************************************************************************)
Range(f) == {f[i] : i \in DOMAIN f}

\* character c of a text stands for the letter d of a lexicon phrase: the
\* letter itself, its capital, or (for k) the Kelvin sign
SameLetter(c, d) ==
    \/ c = d
    \/ \E k \in 1..Len(LowerAlphabet) :
          d = CharAt(LowerAlphabet, k) /\ c = CharAt(UpperAlphabet, k)
    \/ d = "k" /\ c = KelvinSign

\* the phrase term occurs in text at position i
MatchesAt(text, term, i) ==
    /\ i >= 1
    /\ i + Len(term) - 1 <= Len(text)
    /\ \A j \in 1..Len(term) : SameLetter(text[i + j - 1], CharAt(term, j))

Ran == input # <<>>
In == input[1]
Res == result[1]
Completed == Ran /\ In.stop = NoStop
BothReturned == Ran /\ In.sres.kind = "returned" /\ In.eres.kind = "returned"
NonCrisisRun == BothReturned /\ ~detect_crisis(In.text)
CrisisRun == BothReturned /\ detect_crisis(In.text)

HasSentimentLabel == "label" \in DOMAIN In.sres.r
HasEmotionLabel == "label" \in DOMAIN In.eres.r
SentimentIs(l) == HasSentimentLabel /\ Upper(In.sres.r.label) = Chars(l)
EmotionIs(e) == HasEmotionLabel /\ Lower(In.eres.r.label) = Chars(e)
GivenScore == IF "score" \in DOMAIN In.sres.r THEN In.sres.r.score ELSE DefaultScore
EmotionNegative == \E e \in {"sadness", "anger", "fear", "disgust"} : EmotionIs(e)
StrongNegative == SentimentIs("NEGATIVE") /\ GivenScore >= StrongThreshold

\* the value hash(text) took in the run (non-crisis runs only)
TextHash == CHOOSE h \in HashVals : <<In.text, h>> \in hashtab

TipShown == Len(toasts) = 2

\* a dict with its "label" replaced
WithLabel(d, l) == [k \in DOMAIN d \cup {"label"} |-> IF k = "label" THEN l ELSE d[k]]

(***************************************************************************)
(* C1.  Crisis always wins: whenever detect_crisis(text) holds and both      *)
(* classifier calls return, whatever they return, the result has crisis =   *)
(* TRUE and the reply is the one fixed crisis message, with its emergency    *)
(* numbers and crisis lines; no hash is taken, and a run that is not         *)
(* stopped shows exactly that message.                                       *)
(***************************************************************************)
C1_CrisisAlwaysWins ==
    CrisisRun =>
        /\ result # <<>>
        /\ Res.crisis = TRUE
        /\ Res.reply = CrisisMessage
        /\ written \in {<<>>, <<CrisisMessage>>}
        /\ Completed => written = <<CrisisMessage>>
        /\ Contains(Res.reply, "112/911/999")
        /\ Contains(Res.reply, "https://findahelpline.com/")
        /\ Contains(Res.reply, "988")
        /\ hashtab = {}

C1_Witness ==
    /\ CrisisRun
    /\ In.text # Lower(In.text)
    /\ SentimentIs("POSITIVE")
    /\ EmotionIs("joy")
    /\ written = <<CrisisMessage>>

C1_WitnessKelvin ==
    /\ CrisisRun
    /\ \E i \in 1..Len(In.text) : In.text[i] = KelvinSign
    /\ Res.reply = CrisisMessage

(***************************************************************************)
(* C2.  As claimed: for non-crisis text, NEGATIVE sentiment with score      *)
(* >= 0.7 yields the strong-negative reply, for every emotion label.         *)
(***************************************************************************)
C2_StrongNegativeReply ==
    (NonCrisisRun /\ StrongNegative) => Res.reply = NegativeStrongMessage

(***************************************************************************)
(* C3.  As claimed: for non-crisis text, NEGATIVE sentiment below 0.7 and    *)
(* an emotion outside sadness/anger/fear/disgust yields a reply of the       *)
(* generic neutral list, never of the joy or surprise lists.                 *)
(***************************************************************************)
C3_GenericMildNegative ==
    (NonCrisisRun /\ SentimentIs("NEGATIVE") /\ GivenScore < StrongThreshold
        /\ ~EmotionNegative)
    => Res.reply \in Range(templates.neutral)

(***************************************************************************)
(* C4.  Emotion promotes over sentiment: for non-crisis text whose           *)
(* sentiment is not NEGATIVE with score >= 0.7, an emotion label among       *)
(* sadness/anger/fear/disgust yields a reply of that emotion's own list,     *)
(* for every sentiment label and every emotion score.                        *)
(***************************************************************************)
C4_EmotionPromotes ==
    (NonCrisisRun /\ ~StrongNegative) =>
        \A e \in {"sadness", "anger", "fear", "disgust"} :
            EmotionIs(e) => Res.reply \in Range(templates[e])

C4_Witness ==
    /\ NonCrisisRun
    /\ SentimentIs("POSITIVE")
    /\ EmotionIs("anger")
    /\ Res.reply \in Range(templates.anger)

(***************************************************************************)
(* C5.  As claimed: a run with the same text and the same classifier        *)
(* results as the run before it shows the same reply and the same tip,       *)
(* also when the process was restarted in between.                           *)
(***************************************************************************)
C5_SameInputsSameOutputs ==
    [][ (Ran /\ BothReturned /\ input' = input)
            => (written' = written /\ toasts' = toasts) ]_vars

(***************************************************************************)
(* C6.  As claimed: a tip is shown exactly when both classifier calls        *)
(* return, the text is non-crisis and the sentiment label is NEGATIVE or the *)
(* emotion label is one of sadness/anger/fear/disgust; the tip shown is the  *)
(* element of the tip list at index hash(text) mod len(tips).                *)
(***************************************************************************)
NegativeRun == NonCrisisRun /\ (SentimentIs("NEGATIVE") \/ EmotionNegative)

C6_TipExactlyWhenNegative ==
    /\ Ran => (TipShown <=> NegativeRun)
    /\ (Ran /\ TipShown) =>
          toasts[2] = "Micro-boost: " \o tips[(TextHash % Len(tips)) + 1]

(***************************************************************************)
(* C7.  detect_crisis(text) is true iff some phrase of the lexicon occurs    *)
(* in the text at some position, each character of the text being a          *)
(* character that lower() maps to the letter of the phrase; it is false for  *)
(* the empty text and for text made of spaces only.                          *)
(***************************************************************************)
Lexicon ==
    {"suicide", "kill myself", "end my life", "can't go on", "cant go on",
     "self harm", "self-harm", "hurt myself", "harm myself", "ending it",
     "no reason to live"}

OnlySpaces(text) == \A i \in 1..Len(text) : text[i] = " "

C7_DetectCrisis ==
    ret # <<>> =>
        /\ ret[1] <=> \E term \in Lexicon : \E i \in 1..Len(arg) : MatchesAt(arg, term, i)
        /\ OnlySpaces(arg) => ret[1] = FALSE

C7_Witness ==
    /\ ret = <<TRUE>>
    /\ arg # Lower(arg)
    /\ ~MatchesAt(arg, "suicide", 1)
    /\ \E i \in 2..Len(arg) : MatchesAt(arg, "suicide", i)

C7_WitnessKelvin ==
    /\ ret = <<TRUE>>
    /\ \E i \in 1..Len(arg) : arg[i] = KelvinSign /\ MatchesAt(arg, "kill myself", i)

C7_WitnessDot ==
    /\ ret = <<FALSE>>
    /\ arg = Chars("su") \o <<CapitalIDot>> \o Chars("cide")

(***************************************************************************)
(* C8.  For non-crisis text whose sentiment is not NEGATIVE and whose        *)
(* emotion is not sadness/anger/fear/disgust: the reply is in the joy list   *)
(* if the sentiment is POSITIVE or the emotion is joy, otherwise in the      *)
(* neutral list; it is the element at an index within the list.              *)
(***************************************************************************)
C8_JoyOrNeutral ==
    (NonCrisisRun /\ ~SentimentIs("NEGATIVE") /\ ~EmotionNegative) =>
        LET list == IF SentimentIs("POSITIVE") \/ EmotionIs("joy")
                    THEN templates.joy ELSE templates.neutral
            idx == Abs(TextHash) % Len(list)
        IN  /\ 0 <= idx /\ idx < Len(list)
            /\ Res.reply = list[idx + 1]
            /\ Completed => written = <<list[idx + 1]>>

C8_Witness ==
    /\ NonCrisisRun
    /\ SentimentIs("NEUTRAL")
    /\ EmotionIs("surprise")
    /\ Res.reply \in Range(templates.neutral)

C8_WitnessJoy ==
    /\ NonCrisisRun
    /\ SentimentIs("LABEL_1")
    /\ EmotionIs("joy")
    /\ Res.reply \in Range(templates.joy)

(***************************************************************************)
(* C9.  Unknown labels are absorbed by defaulting: whenever both classifier  *)
(* calls return a reply is produced; an emotion label whose lower case is    *)
(* none of the seven gives the reply and the tip of the label neutral, and a *)
(* sentiment label whose upper case is neither POSITIVE nor NEGATIVE, or a   *)
(* missing one, gives the reply and the tip of the label NEUTRAL.            *)
(***************************************************************************)
EmotionUnrecognized ==
    HasEmotionLabel /\ \A e \in DOMAIN templates : ~EmotionIs(e)

SentimentUnrecognized == ~SentimentIs("POSITIVE") /\ ~SentimentIs("NEGATIVE")

SameAsWith(r, er) ==
    LET h == IF detect_crisis(In.text) THEN 0 ELSE TextHash
        other == analyze_and_respond(In.text, r, er, h)
    IN  /\ Res.reply = other.reply
        /\ written = ShownWritten(other, In.stop)
        /\ toasts = ShownToasts(other, h, In.stop)

C9_UnknownLabelsDefault ==
    BothReturned =>
        /\ result # <<>>
        /\ Res.reply # ""
        /\ EmotionUnrecognized => SameAsWith(In.sres.r, WithLabel(In.eres.r, neutral))
        /\ SentimentUnrecognized => SameAsWith(WithLabel(In.sres.r, NEUTRAL), In.eres.r)

C9_Witness ==
    /\ NonCrisisRun
    /\ Completed
    /\ EmotionUnrecognized
    /\ SentimentIs("NEGATIVE")
    /\ Res.reply \in Range(templates.neutral)
    /\ TipShown

C9_WitnessSentiment ==
    /\ NonCrisisRun
    /\ Completed
    /\ SentimentIs("LABEL_1")
    /\ EmotionIs("neutral")
    /\ Res.reply \in Range(templates.neutral)
    /\ ~TipShown

C9_WitnessDot ==
    /\ NonCrisisRun
    /\ In.eres.r = [label |-> Chars("d") \o <<CapitalIDot>> \o Chars("sgust"), score |-> 90]
    /\ EmotionUnrecognized
    /\ SentimentIs("POSITIVE")
    /\ Res.reply \in Range(templates.joy)

(***************************************************************************)
(* C10.  As claimed: the history starts with the greeting and, within a      *)
(* process, only grows: a run appends the user message, followed by one      *)
(* assistant message holding the reply iff both classifier calls return.     *)
(* When a classifier call raises, nothing else is appended and no reply, no  *)
(* tip and no crisis notice is shown, also for a text with a crisis phrase.  *)
(***************************************************************************)
RunStep ==
    LET n == Len(messages)
        both == input'[1].sres.kind = "returned" /\ input'[1].eres.kind = "returned"
    IN  /\ input' # <<>>
        /\ Len(messages') > n
        /\ SubSeq(messages', 1, n) = messages
        /\ messages'[n + 1] = [role |-> "user", content |-> input'[1].text]
        /\ IF both
           THEN /\ Len(messages') = n + 2
                /\ result' # <<>>
                /\ messages'[n + 2] = [role |-> "assistant", content |-> result'[1].reply]
           ELSE /\ Len(messages') = n + 1
                /\ result' = <<>>
                /\ written' = <<>>
                /\ toasts' = <<>>
                /\ \A i \in 1..Len(captions') : captions'[i].kind # "meta"

C10_History ==
    /\ [](messages[1] = Greeting)
    /\ [][proc' = proc => RunStep]_vars

====
